---- MODULE Spec2Model ----
(***************************************************************************)
(* Validation-and-generation orchestrator of the onboarding server.        *)
(*                                                                         *)
(* The model follows the main server file (src/unnamed/part_003): the      *)
(* in-memory job registry JOBS, the POST /validate-and-generate/:token     *)
(* handler with its detached worker, runMemberValidationsSequential, the   *)
(* store writes of updateMemberValidation and the Agreement attachment.    *)
(* The external collaborators (Airtable store, Blackbaud directory, token  *)
(* refresh subprocess, PDF generator, file system) answer                  *)
(* nondeterministically: every awaited call either returns or rejects.     *)
(* The server runs production settings (DEV_MODE = false), so the          *)
(* devFake branch of runMemberValidationsSequential is not taken.          *)
(*                                                                         *)
(* One action is one run of the event loop: from the completion of an      *)
(* awaited call up to the next await of the same async function.           *)
(***************************************************************************)
EXTENDS Integers, Sequences, FiniteSets, TLC

\* ------------------------------------------------------------------ bounds
\* Largest number of Team Members records in the store.
MaxMembers == 2
\* Largest number of job objects created by triggers in one behaviour.
MaxJobs == 2

\* ------------------------------------------------------------ environment
\* Record ids used as registry keys.  recA is a UTS Startups record of the
\* store; recOld is a stale id (no such record), which tokens may still carry.
RecordIds == {"recA", "recOld"}
StoredRecords == {"recA"}

\* EOI table: EOI record id -> first entry of its "UTS Startups" link.
EOILink(startupId) == IF startupId = "eoi1" THEN "recA" ELSE ""

\* Decoded magic-link tokens (req.user): the EOI record id and, optionally,
\* the UTS Startups record id that generateMagicLink put into the token.
Tokens ==
  { [startupId |-> "eoi1", startupRecordId |-> ""],
    [startupId |-> "eoi1", startupRecordId |-> "recA"],
    [startupId |-> "eoi1", startupRecordId |-> "recOld"],
    [startupId |-> "",     startupRecordId |-> "recOld"],
    [startupId |-> "",     startupRecordId |-> ""] }

\* String(x).trim().toLowerCase() on the field texts of the model.
TrimLower(s) ==
  CASE s = "None of the above"   -> "none of the above"
    [] s = "NONE OF THE ABOVE "  -> "none of the above"
    [] s = "Current UTS Student" -> "current uts student"
    [] s = "Current UTS Staff"   -> "current uts staff"
    [] s = "Valid"               -> "valid"
    [] s = "Invalid"             -> "invalid"
    [] s = "  "                  -> ""
    [] s = "Student"             -> "student"
    [] s = "Staff"               -> "staff"
    [] s = "Alumni"              -> "alumni"
    [] s = "ANA@UTS.EDU"         -> "ana@uts.edu"
    [] OTHER                     -> s

\* String(x).trim()
Trim(s) ==
  CASE s = "NONE OF THE ABOVE " -> "NONE OF THE ABOVE"
    [] s = "  "                 -> ""
    [] OTHER                    -> s

\* Team Members records a store may hold (all linked to recA).
\*   representative : "Representative"
\*   submitted      : "New onboarding form submitted"
\*   manual         : "Manual Discount Check"
\*   manualCat      : "Manual Discount Category"
\*   expected       : "Discount Category"
\*   searchId       : "UTS ID"
\*   validated      : "Discount Validated"      (written by the worker)
\*   validDate      : "Discount Valid Date"     (written by the worker)
MemberProfiles ==
  { [representative |-> TRUE,  submitted |-> TRUE,  manual |-> "", manualCat |-> "",
     expected |-> "Current UTS Student", searchId |-> "A100",
     validated |-> "", validDate |-> ""],
    [representative |-> TRUE,  submitted |-> FALSE, manual |-> "Valid",
     manualCat |-> "Current UTS Staff",
     expected |-> "", searchId |-> "A300",
     validated |-> "", validDate |-> ""],
    [representative |-> FALSE, submitted |-> TRUE,  manual |-> "", manualCat |-> "",
     expected |-> "None of the above", searchId |-> "A400",
     validated |-> "", validDate |-> ""],
    [representative |-> FALSE, submitted |-> TRUE,  manual |-> "", manualCat |-> "",
     expected |-> "NONE OF THE ABOVE ", searchId |-> "A500",
     validated |-> "", validDate |-> ""],
    [representative |-> FALSE, submitted |-> FALSE, manual |-> "", manualCat |-> "",
     expected |-> "", searchId |-> "A600",
     validated |-> "", validDate |-> ""],
    [representative |-> TRUE,  submitted |-> TRUE,  manual |-> "", manualCat |-> "",
     expected |-> "Current UTS Student", searchId |-> "  ",
     validated |-> "", validDate |-> ""] }

\* Team Members records around the manual override: check and category
\* filled, only the check filled, only the category filled.
OverrideProfiles ==
  { [representative |-> TRUE,  submitted |-> TRUE,  manual |-> "Valid",
     manualCat |-> "Current UTS Staff",
     expected |-> "Current UTS Student", searchId |-> "A100",
     validated |-> "Invalid", validDate |-> "2024-01-01"],
    [representative |-> TRUE,  submitted |-> TRUE,  manual |-> "Valid",
     manualCat |-> "",
     expected |-> "Current UTS Student", searchId |-> "A200",
     validated |-> "", validDate |-> ""],
    [representative |-> TRUE,  submitted |-> TRUE,  manual |-> "",
     manualCat |-> "Current UTS Staff",
     expected |-> "Current UTS Student", searchId |-> "A700",
     validated |-> "", validDate |-> ""] }

\* Table contents: sequences of at most MaxMembers records, in table order.
Rosters == UNION { [1..n -> MemberProfiles] : n \in 0..MaxMembers }

OverrideRosters == UNION { [1..n -> OverrideProfiles] : n \in 1..MaxMembers }

JobIds == 1..MaxJobs

\* A registry slot or worker that holds nothing.
None == [kind |-> "none"]

VARIABLES
  startup,    \* the UTS Startups record recA: gate fields and Agreement list
              \* (its "Agreement Created Date" is only ever written, not kept)
  members,    \* the Team Members table: sequence of records linked to recA
  JOBS,       \* the registry Map: record id -> job object (0: no entry)
  heap,       \* job objects by identity (JobIds), None when not allocated
  pc,         \* position of the detached worker of each job object
  wk,         \* locals of the detached worker of each job object
  clock,      \* number of job-creation timestamps handed out so far
  lastTrigger, \* the latest 202 response of POST /validate-and-generate
  hist,       \* history of each worker: calls made, exception caught
  rs,         \* one run of the Resolver: query, Directory answers, outcome
  dl,         \* the download tokens, the cached files and the requests for them
  pr          \* one pricing computation: members, matrix, outcome

\* The variables of the components that are followed on their own; the
\* orchestrator's steps leave them alone.
aux == <<rs, dl, pr>>

vars == <<startup, members, JOBS, heap, pc, wk, clock, lastTrigger, hist, aux>>


\* ------------------------------------------------------------ pure helpers
\* asOne over checkbox fields, which read as true or as absent (false).
asOne(v) == v = TRUE

\* A test for the sentinel that compares letter case.
hasDiscountRequestCaseSensitive(expectedRaw) ==
  IF expectedRaw = "" THEN FALSE
  ELSE LET s == Trim(expectedRaw)
       IN IF s = "" THEN FALSE ELSE s # "none of the above"

\* hasDiscountRequest(expectedRaw)
hasDiscountRequest(expectedRaw) ==
  IF expectedRaw = "" THEN FALSE
  ELSE LET s == TrimLower(expectedRaw)
       IN IF s = "" THEN FALSE ELSE s # "none of the above"

\* mapReason(internal).code for the status texts the worker passes in
\* ("" stands for the null code).
mapReason(internal) ==
  LET s == TrimLower(internal)
  IN CASE s = "valid" \/ internal = "validated"   -> "validated"
       [] s = "ambiguous"                          -> "ambiguous"
       [] s = "unauthorized"                       -> "unauthorized"
       [] s = "not_found"                          -> "not_found"
       [] s = "invalid" \/ s = "mismatch"          -> "mismatch"
       [] s = "error"                              -> "error"
       [] s = "skipped" \/ s = "no_request"        -> "no_request"
       [] s = "manual" \/ s = "manual_override"    -> "manual"
       [] OTHER                                    -> ""

\* Outcomes of validator.validateDiscount as the worker reads them:
\* status, valid, qualifies_other and the upstream status kept in reason
\* ("search 401", "codes 500"; 0 when the outcome carries none).
Outcome(st, v, q, up) ==
  [status |-> st, valid |-> v, qualifies_other |-> q, upstream |-> up]

\* What a strict search alone can settle: a non-200 answer or no candidate.
SearchOutcomes ==
  { Outcome("error", FALSE, FALSE, 401),
    Outcome("error", FALSE, FALSE, 500),
    Outcome("not_found", FALSE, FALSE, 0) }

\* What the lookups after the search settle (evaluateSingle and the
\* multi-candidate evaluation).
LookupOutcomes ==
  { Outcome("valid", TRUE, FALSE, 0),
    Outcome("invalid", FALSE, FALSE, 0),
    Outcome("invalid", FALSE, TRUE, 0),
    Outcome("ambiguous", FALSE, FALSE, 0),
    Outcome("error", FALSE, FALSE, 401),
    Outcome("error", FALSE, FALSE, 500) }

\* The test that guards the refresh: /401/.test(String(result.reason)).
Is401(result) == result.upstream = 401

\* The selection updateMemberValidation writes to "Discount Validated".
Selection(result) ==
  IF result.valid THEN "Valid"
  ELSE IF result.qualifies_other THEN "Qualifies for Other"
  ELSE IF result.status = "ambiguous" THEN "Ambiguous"
  ELSE "Invalid"

\* Messages of the exceptions that reach the worker's catch.
MsgFetch == "store read failed"
MsgDirectory == "directory call failed"
MsgRender == "Generator exited with code 1"
MsgCache == "pdf cache write failed"

\* ------------------------------------------------------------- job objects
\* A job object created in state idle.
NewJobIdle(now) ==
  [kind |-> "job", state |-> "idle", startedAt |-> now,
   progress |-> [validated |-> 0, total |-> 0],
   members |-> <<>>, result |-> [kind |-> "null"]]

\* The object literal of the trigger handler.  members is absent until the
\* worker seeds it; result is null.
NewJob(now) ==
  [kind |-> "job", state |-> "running", startedAt |-> now,
   progress |-> [validated |-> 0, total |-> 0],
   members |-> <<>>, result |-> [kind |-> "null"]]

Terminal == {"done", "error", "blocked"}

\* Statuses that advance progress.validated in the onUpdate callback.
CountedStatuses == {"valid", "invalid", "ambiguous", "error", "skipped"}

Min(a, b) == IF a < b THEN a ELSE b

\* The onUpdate callback: patch the checklist entry of memberId and count it.
\* partial.reason_code = "" stands for a partial without reason_code.
onUpdate(job, memberId, partial) ==
  IF ~(\E k \in 1..Len(job.members) : job.members[k].id = memberId) THEN job
  ELSE
    LET k == CHOOSE x \in 1..Len(job.members) :
                 /\ job.members[x].id = memberId
                 /\ \A y \in 1..(x - 1) : job.members[y].id # memberId
        m0 == job.members[k]
        m1 == IF partial.status # "" THEN [m0 EXCEPT !.status = partial.status] ELSE m0
        m2 == IF partial.reason_code # ""
              THEN [m1 EXCEPT !.reason_code = partial.reason_code] ELSE m1
        counted == TrimLower(partial.status) \in CountedStatuses
    IN [job EXCEPT
          !.members[k] = m2,
          !.progress.validated =
             IF counted THEN Min(@ + 1, job.progress.total) ELSE @]

\* The checklist seeded after the fetch: one queued entry per member.
SeedChecklist(n) == [k \in 1..n |-> [id |-> k, status |-> "queued", reason_code |-> ""]]

\* A catch block that logs and leaves the job as it is.
WorkerCatchKeepsRunning(job, message) == job

\* A catch block that drops the exception's message.
WorkerCatchNoMessage(job, message) == [job EXCEPT !.state = "error"]

\* The catch block of the detached worker.
WorkerCatch(job, message) ==
  [job EXCEPT !.state = "error",
              !.result = [kind |-> "message", message |-> message]]

\* The loop header of runMemberValidationsSequential: the index after i.
NextMember(i) == i + 1

\* A member loop without the skip paths: every member goes to the Resolver.
RunLoopNoSkip(job, i) ==
  IF i > Len(members) THEN [job |-> job, i |-> i, pc |-> "payload"]
  ELSE [job |-> onUpdate(job, i, [status |-> "pending", reason_code |-> ""]),
        i |-> i, pc |-> "search"]

\* runMemberValidationsSequential from member i up to its next await: members
\* with a manual override or without a discount request are published as
\* skipped, a member without a lookup id is passed over, and the first member
\* that needs the Resolver leaves the worker awaiting validateDiscount.  Past
\* the last member the worker awaits buildPdfPayload.
RECURSIVE RunLoop(_, _)
RunLoop(job, i) ==
  IF i > Len(members) THEN [job |-> job, i |-> i, pc |-> "payload"]
  ELSE
    LET r == members[i]
        pend == onUpdate(job, i, [status |-> "pending", reason_code |-> ""])
        expected == IF Trim(r.manual) # "" /\ Trim(r.manualCat) # ""
                    THEN r.manualCat ELSE r.expected
    IN IF Trim(r.manual) # ""
       THEN RunLoop(onUpdate(pend, i, [status |-> "skipped", reason_code |-> "manual"]),
                    NextMember(i))
       ELSE IF ~hasDiscountRequest(expected)
       THEN RunLoop(onUpdate(pend, i, [status |-> "skipped", reason_code |-> "no_request"]),
                    NextMember(i))
       ELSE IF Trim(r.searchId) = ""
       THEN RunLoop(pend, NextMember(i))
       ELSE [job |-> pend, i |-> i, pc |-> "search"]

\* Gates that leave out the Submission Confirmation checkbox.
GatesHoldNoConfirmation(rec, mems) ==
  /\ asOne(rec.newFormSubmitted) \/ asOne(rec.onboardingSubmitted)
  /\ \E k \in 1..Len(mems) : asOne(mems[k].representative) /\ asOne(mems[k].submitted)

\* A status view that hands the stored result through as it is.
sanitizeJobRawResult(job) ==
  IF job.kind # "job"
  THEN [state |-> "idle", progress |-> [validated |-> 0, total |-> 0],
        members |-> <<>>, result |-> [kind |-> "undefined"]]
  ELSE [state |-> job.state,
        progress |-> job.progress,
        members |-> [k \in DOMAIN job.members |->
                       LET m == job.members[k]
                       IN [id |-> m.id,
                           status |-> TrimLower(IF m.status = "" THEN "queued" ELSE m.status),
                           reason_code |-> mapReason(IF m.reason_code # "" THEN m.reason_code
                                                     ELSE m.status)]],
        result |-> job.result]

\* sanitizeJob: what a status poll returns for a job object.  The statuses
\* the server writes are lower-case and untrimmed already, so toLowerCase is
\* TrimLower on them.  The stored result is exposed only as the document
\* reference (url, filename, expiresAt); the worker stores no expiresAt.
sanitizeJob(job) ==
  IF job.kind # "job"
  THEN [state |-> "idle", progress |-> [validated |-> 0, total |-> 0],
        members |-> <<>>, result |-> [kind |-> "undefined"]]
  ELSE [state |-> job.state,
        progress |-> job.progress,
        members |-> [k \in DOMAIN job.members |->
                       LET m == job.members[k]
                       IN [id |-> m.id,
                           status |-> TrimLower(IF m.status = "" THEN "queued" ELSE m.status),
                           reason_code |-> mapReason(IF m.reason_code # "" THEN m.reason_code
                                                     ELSE m.status)]],
        result |-> IF job.result.kind = "pdf"
                   THEN [kind |-> "pdf",
                         pdf |-> [url |-> job.result.pdf.url,
                                  filename |-> job.result.pdf.filename,
                                  expiresAt |-> "undefined"]]
                   ELSE [kind |-> "undefined"]]

\* The organization-level gates read from the fetched records.
GatesHold(rec, mems) ==
  /\ asOne(rec.newFormSubmitted) \/ asOne(rec.onboardingSubmitted)
  /\ asOne(rec.submissionConfirmation)
  /\ \E k \in 1..Len(mems) : asOne(mems[k].representative) /\ asOne(mems[k].submitted)

\* getStartupRecordIdFromReqUser / resolveStartupRecordIdFromEOI; eoiOk is
\* whether the EOI read succeeded (a failed read is caught and yields null).
getStartupRecordIdFromReqUser(user) == user.startupRecordId

resolveStartupRecordIdFromEOI(startupId, eoiOk) ==
  IF startupId = "" THEN "" ELSE IF eoiOk THEN EOILink(startupId) ELSE ""

\* The key the trigger handler uses: EOI link first, token second.
TriggerKey(user, eoiOk) ==
  LET viaEoi == resolveStartupRecordIdFromEOI(user.startupId, eoiOk)
  IN IF viaEoi # "" THEN viaEoi ELSE getStartupRecordIdFromReqUser(user)

\* The key the status handler uses: token first, EOI link second.
StatusKey(user, eoiOk) ==
  LET viaToken == getStartupRecordIdFromReqUser(user)
  IN IF viaToken # "" THEN viaToken
     ELSE resolveStartupRecordIdFromEOI(user.startupId, eoiOk)

\* A guard that compares with a state no job ever has.
AlreadyRunningPending(key) ==
  /\ JOBS[key] # 0
  /\ heap[JOBS[key]].kind = "job"
  /\ heap[JOBS[key]].state = "pending"

\* The guard of the trigger handler: a registered job that is still running.
AlreadyRunning(key) ==
  /\ JOBS[key] # 0
  /\ heap[JOBS[key]].kind = "job"
  /\ heap[JOBS[key]].state = "running"

\* History of a worker (not program state):
\*   called : it has issued a Directory call, a token refresh or a member write
\*   open   : Directory calls issued and not yet answered
\*   thrown : message of the exception its catch block received ("" if none)
\*   trail  : per member the Resolver was started on, in order of occurrence,
\*            <<"resolve", id>>, <<"persist", id>>, <<"publish", id>>
\*   resolves, refreshes, refreshOk : for the member being validated, the
\*            invocations of the Resolver, the token refreshes, and whether
\*            the latest refresh succeeded (cleared when the member is written)
NoHist ==
  [called |-> FALSE, open |-> 0, thrown |-> "", trail |-> <<>>,
   resolves |-> 0, refreshes |-> 0, refreshOk |-> FALSE]

Issued(h) == [h EXCEPT !.called = TRUE, !.open = @ + 1]
Answered(h) == [h EXCEPT !.open = @ - 1]
Logged(h, ev, id) == [h EXCEPT !.trail = Append(@, <<ev, id>>)]
Invoked(h) == [Issued(h) EXCEPT !.resolves = @ + 1]
Refreshed(h, ok) == [h EXCEPT !.refreshes = @ + 1, !.refreshOk = ok]
Settled(h) == [h EXCEPT !.resolves = 0, !.refreshes = 0, !.refreshOk = FALSE]

\* How many jobs a behaviour may create (the bound on the creation counter):
\* MaxJobs over a short Team Members table, fewer the longer the table, one
\* over a table of MaxMembers records (one pass is followed to its end).
JobBudget == Min(MaxJobs, MaxMembers + 1 - Len(members))

\* ------------------------------------------------------------------- Init
Init ==
  /\ startup \in [newFormSubmitted : BOOLEAN, onboardingSubmitted : BOOLEAN,
                  submissionConfirmation : BOOLEAN, agreement : {<<0>>}]
  /\ members \in Rosters
  /\ JOBS = [k \in RecordIds |-> 0]
  /\ heap = [j \in JobIds |-> None]
  /\ pc = [j \in JobIds |-> "unborn"]
  /\ wk = [j \in JobIds |-> None]
  /\ clock = 0
  /\ lastTrigger = None
  /\ hist = [j \in JobIds |-> NoHist]
  /\ rs = None
  /\ dl = None
  /\ pr = None

\* ---------------------------------------------------------------- actions
\* Locals of a detached worker: the registry key, the Agreement list of the
\* startupRec it fetched, the loop index, the attempt of validateDiscount
\* (2 after a refresh) and the Resolver's latest result.
NewWorker(key) ==
  [kind |-> "worker", key |-> key, agreement |-> <<>>, i |-> 0,
   attempt |-> 1, result |-> None]

\* A response stamped with the time of the request, not of the job.
ResponseNow(key, job, message) ==
  [kind |-> "response", key |-> key, message |-> message,
   state |-> job.state, startedAt |-> clock + 1]

\* The job part of a 202 response.
Response(key, job, message) ==
  [kind |-> "response", key |-> key, message |-> message,
   state |-> job.state, startedAt |-> job.startedAt]

\* POST /validate-and-generate/:token.  The await that resolves the key only
\* reads the EOI table, which nothing here writes, so the handler is one step.
\* A created job starts its worker, which runs up to its first await (the
\* fetch) before the response is sent.
Trigger(user, eoiOk) ==
  LET key == TriggerKey(user, eoiOk)
  IN IF key = ""
     THEN UNCHANGED vars   \* 400: no linked record, nothing is touched
     ELSE IF AlreadyRunning(key)
     THEN /\ lastTrigger' = Response(key, heap[JOBS[key]], "already in progress")
          /\ UNCHANGED <<startup, members, JOBS, heap, pc, wk, clock, hist, aux>>
     ELSE /\ clock < JobBudget
          /\ LET j == clock + 1
                 old == JOBS[key]
                 job == NewJob(j)
                 \* the replaced object is unreachable once its worker is over
                 freed == {x \in JobIds : x = old /\ pc[x] = "finished"}
             IN /\ JOBS' = [JOBS EXCEPT ![key] = j]
                /\ heap' = [x \in JobIds |->
                              IF x = j THEN job
                              ELSE IF x \in freed THEN None ELSE heap[x]]
                /\ hist' = [x \in JobIds |-> IF x \in freed THEN NoHist ELSE hist[x]]
                /\ pc' = [pc EXCEPT ![j] = "fetch"]
                /\ wk' = [wk EXCEPT ![j] = NewWorker(key)]
                /\ clock' = j
                /\ lastTrigger' = Response(key, job, "started")
          /\ UNCHANGED <<startup, members, aux>>

\* The worker of job j ends: its closure is dropped.
Ends(j, job) ==
  /\ heap' = [heap EXCEPT ![j] = job]
  /\ pc' = [pc EXCEPT ![j] = "finished"]
  /\ wk' = [wk EXCEPT ![j] = None]

\* An awaited call of worker j rejects: the catch block runs.
Throws(j, message, h) ==
  /\ Ends(j, WorkerCatch(heap[j], message))
  /\ hist' = [hist EXCEPT ![j] = [h EXCEPT !.thrown = message]]
  /\ UNCHANGED <<startup, members, JOBS, clock, lastTrigger>>

\* The worker leaves the member loop at run.pc: either it has issued the
\* strict search for member run.i, or it awaits buildPdfPayload.
Continue(j, run, h) ==
  /\ heap' = [heap EXCEPT ![j] = run.job]
  /\ pc' = [pc EXCEPT ![j] = run.pc]
  /\ hist' = [hist EXCEPT ![j] =
                IF run.pc = "search" THEN Logged(Invoked(h), "resolve", run.i) ELSE h]

\* fetchStartupAndMembers returns or rejects; on return the worker sets the
\* total, seeds the checklist, checks the gates and enters the member loop.
FetchReturn(j) ==
  /\ UNCHANGED aux
  /\ pc[j] = "fetch"
  /\ \/ Throws(j, MsgFetch, hist[j])
     \/ /\ wk[j].key \in StoredRecords
        /\ LET seeded == [heap[j] EXCEPT !.progress.total = Len(members),
                                         !.members = SeedChecklist(Len(members))]
           IN IF ~GatesHold(startup, members)
              THEN /\ Ends(j, [seeded EXCEPT !.state = "blocked",
                                             !.result = [kind |-> "eligibility",
                                                        details |-> "gates"]])
                   /\ UNCHANGED hist
              ELSE LET run == RunLoop(seeded, 1)
                   IN /\ Continue(j, run, hist[j])
                      /\ wk' = [wk EXCEPT ![j].agreement = startup.agreement,
                                          ![j].i = run.i]
        /\ UNCHANGED <<startup, members, JOBS, clock, lastTrigger>>

\* A worker that refreshes on every 401, also on the retry's.
AfterResolveAlwaysRefresh(j, result) ==
  /\ pc' = [pc EXCEPT ![j] = IF Is401(result) THEN "refresh" ELSE "write"]
  /\ wk' = [wk EXCEPT ![j].result = result]
  /\ hist' = [hist EXCEPT ![j] = Answered(hist[j])]
  /\ UNCHANGED <<startup, members, JOBS, heap, clock, lastTrigger>>

\* A worker that goes on to the next member without the store write and the
\* checklist update.
AfterResolveNoPersist(j, result) ==
  /\ pc' = [pc EXCEPT ![j] = "pace"]
  /\ wk' = [wk EXCEPT ![j].result = result]
  /\ hist' = [hist EXCEPT ![j] = Answered(hist[j])]
  /\ UNCHANGED <<startup, members, JOBS, heap, clock, lastTrigger>>

\* What the worker does with the result of validateDiscount: one refresh on
\* the first 401, otherwise on to updateMemberValidation.
AfterResolve(j, result) ==
  /\ pc' = [pc EXCEPT ![j] =
              IF Is401(result) /\ wk[j].attempt = 1 THEN "refresh" ELSE "write"]
  /\ wk' = [wk EXCEPT ![j].result = result]
  /\ hist' = [hist EXCEPT ![j] = Answered(hist[j])]
  /\ UNCHANGED <<startup, members, JOBS, heap, clock, lastTrigger>>

\* The strict search of validateDiscount answers: it rejects (missing
\* credentials, network error), settles the outcome, or yields candidates
\* whose records and codes are looked up next.
SearchReturn(j) ==
  /\ UNCHANGED aux
  /\ pc[j] = "search"
  /\ \/ Throws(j, MsgDirectory, Answered(hist[j]))
     \/ \E result \in SearchOutcomes : AfterResolve(j, result)
     \/ /\ pc' = [pc EXCEPT ![j] = "lookup"]
        /\ hist' = [hist EXCEPT ![j] = Issued(Answered(hist[j]))]
        /\ UNCHANGED <<startup, members, JOBS, heap, wk, clock, lastTrigger>>

\* The lookups after the search (getConstituentById, getConstituentCodes),
\* made one after another, answer.
LookupReturn(j) ==
  /\ UNCHANGED aux
  /\ pc[j] = "lookup"
  /\ \/ Throws(j, MsgDirectory, Answered(hist[j]))
     \/ \E result \in LookupOutcomes : AfterResolve(j, result)

\* runSkyRefresh resolves (it never rejects): on ok the Resolver is invoked
\* a second time, otherwise the 401 result stands.
RefreshReturn(j) ==
  /\ UNCHANGED aux
  /\ pc[j] = "refresh"
  /\ \E ok \in BOOLEAN :
       /\ pc' = [pc EXCEPT ![j] = IF ok THEN "search" ELSE "write"]
       /\ hist' = [hist EXCEPT ![j] =
                     IF ok THEN Invoked(Refreshed(hist[j], ok))
                     ELSE Refreshed(hist[j], ok)]
  /\ wk' = [wk EXCEPT ![j].attempt = 2]
  /\ UNCHANGED <<startup, members, JOBS, heap, clock, lastTrigger>>

\* A publication that puts a member whose validation errored back in the queue.
PublishedStatusRequeue(result) ==
  IF TrimLower(result.status) = "error" THEN "queued"
  ELSE IF TrimLower(result.status) # "" THEN TrimLower(result.status)
  ELSE IF result.valid THEN "valid" ELSE "invalid"

\* The status published to the checklist after the store write.
PublishedStatus(result) ==
  IF TrimLower(result.status) # "" THEN TrimLower(result.status)
  ELSE IF result.valid THEN "valid" ELSE "invalid"

\* updateMemberValidation returns or rejects (the rejection is caught), then
\* the outcome is published through onUpdate and the pacing delay starts.
\* The write also repeats the member's own "Discount Category".
WriteReturn(j) ==
  /\ UNCHANGED aux
  /\ pc[j] = "write"
  /\ LET i == wk[j].i
         result == wk[j].result
     IN /\ \E ok \in BOOLEAN :
             members' = IF ok
                        THEN [members EXCEPT ![i].validated = Selection(result),
                                             ![i].validDate = "today"]
                        ELSE members
        /\ heap' = [heap EXCEPT ![j] =
                      onUpdate(heap[j], i,
                               [status |-> PublishedStatus(result),
                                reason_code |-> mapReason(result.status)])]
        /\ hist' = [hist EXCEPT ![j] =
                      Settled(Logged(Logged(hist[j], "persist", i), "publish", i))]
        /\ pc' = [pc EXCEPT ![j] = "pace"]
        /\ wk' = [wk EXCEPT ![j].result = None, ![j].attempt = 1]
  /\ UNCHANGED <<startup, JOBS, clock, lastTrigger>>

\* The 250 ms pacing delay is over: the loop goes on with the next member.
PaceDone(j) ==
  /\ UNCHANGED aux
  /\ pc[j] = "pace"
  /\ LET run == RunLoop(heap[j], NextMember(wk[j].i))
     IN /\ Continue(j, run, hist[j])
        /\ wk' = [wk EXCEPT ![j].i = run.i]
  /\ UNCHANGED <<startup, members, JOBS, clock, lastTrigger>>

\* A payload step after which the worker walks the member loop again.
PayloadReturnThenValidates(j) ==
  /\ UNCHANGED aux
  /\ pc[j] = "payload"
  /\ pc' = [pc EXCEPT ![j] = "pace"]
  /\ wk' = [wk EXCEPT ![j].i = 0]
  /\ UNCHANGED <<startup, members, JOBS, heap, clock, lastTrigger, hist>>

\* buildPdfPayload returns: it catches its own read and pricing failures and
\* falls back to defaults, so it never rejects.
PayloadReturn(j) ==
  /\ UNCHANGED aux
  /\ pc[j] = "payload"
  /\ pc' = [pc EXCEPT ![j] = "render"]
  /\ UNCHANGED <<startup, members, JOBS, heap, wk, clock, lastTrigger, hist>>

\* generatePdfBuffer returns the bytes or rejects.
RenderReturn(j) ==
  /\ UNCHANGED aux
  /\ pc[j] = "render"
  /\ \/ Throws(j, MsgRender, hist[j])
     \/ /\ pc' = [pc EXCEPT ![j] = "cache"]
        /\ UNCHANGED <<startup, members, JOBS, heap, wk, clock, lastTrigger, hist>>

\* fs.ensureDir / fs.writeFile of the cached copy return or reject.
CacheReturn(j) ==
  /\ UNCHANGED aux
  /\ pc[j] = "cache"
  /\ \/ Throws(j, MsgCache, hist[j])
     \/ /\ pc' = [pc EXCEPT ![j] = "attach"]
        /\ UNCHANGED <<startup, members, JOBS, heap, wk, clock, lastTrigger, hist>>

\* The worker sets state done with the document reference.
Done(job) ==
  [job EXCEPT !.state = "done",
              !.result = [kind |-> "pdf",
                          pdf |-> [url |-> "/agreement/latest/:token",
                                   filename |-> "agreement.pdf"],
                          validations |-> "results"]]

\* The Agreement field the worker sends: the ids of the attachments of the
\* startupRec it fetched, followed by the new document (attachment j).
AgreementUpdate(existing, j) == existing \o <<j>>

\* The Agreement update returns or rejects.  A rejection is caught and
\* logged (orchestrator.attach.error); the date stamp is then not attempted.
AttachReturn(j) ==
  /\ UNCHANGED aux
  /\ pc[j] = "attach"
  /\ \/ /\ startup' = [startup EXCEPT !.agreement = AgreementUpdate(wk[j].agreement, j)]
        /\ pc' = [pc EXCEPT ![j] = "stamp"]
        /\ UNCHANGED <<members, JOBS, heap, wk, clock, lastTrigger, hist>>
     \/ /\ Ends(j, Done(heap[j]))
        /\ UNCHANGED <<startup, members, JOBS, clock, lastTrigger, hist>>

\* The "Agreement Created Date" update returns or rejects (caught); either
\* way the job is done.
StampReturn(j) ==
  /\ UNCHANGED aux
  /\ pc[j] = "stamp"
  /\ Ends(j, Done(heap[j]))
  /\ UNCHANGED <<startup, members, JOBS, clock, lastTrigger, hist>>

Next ==
  \/ \E user \in Tokens, eoiOk \in BOOLEAN : Trigger(user, eoiOk)
  \/ \E j \in JobIds : FetchReturn(j)
  \/ \E j \in JobIds : SearchReturn(j)
  \/ \E j \in JobIds : LookupReturn(j)
  \/ \E j \in JobIds : RefreshReturn(j)
  \/ \E j \in JobIds : WriteReturn(j)
  \/ \E j \in JobIds : PaceDone(j)
  \/ \E j \in JobIds : PayloadReturn(j)
  \/ \E j \in JobIds : RenderReturn(j)
  \/ \E j \in JobIds : CacheReturn(j)
  \/ \E j \in JobIds : AttachReturn(j)
  \/ \E j \in JobIds : StampReturn(j)

Spec == Init /\ [][Next]_vars

\* The same server over a store whose gates hold and whose members carry
\* manual-override fields.
OverrideInit ==
  /\ startup = [newFormSubmitted |-> TRUE, onboardingSubmitted |-> FALSE,
                submissionConfirmation |-> TRUE, agreement |-> <<0>>]
  /\ members \in OverrideRosters
  /\ JOBS = [k \in RecordIds |-> 0]
  /\ heap = [j \in JobIds |-> None]
  /\ pc = [j \in JobIds |-> "unborn"]
  /\ wk = [j \in JobIds |-> None]
  /\ clock = 0
  /\ lastTrigger = None
  /\ hist = [j \in JobIds |-> NoHist]
  /\ rs = None
  /\ dl = None
  /\ pr = None

OverrideSpec == OverrideInit /\ [][Next]_vars

\* ================================================================== claims
\* Job objects that exist, and the workers that are still executing.
IsJob(j) == heap[j].kind = "job"
Executing(j) == pc[j] \notin {"unborn", "finished"}

\* The jobs of registry key `key` that are not over: the registered object
\* while its state is running, and every worker started for the key that is
\* still executing.
NonTerminalJobs(key) ==
  {j \in JobIds : \/ JOBS[key] = j /\ IsJob(j) /\ heap[j].state = "running"
                  \/ Executing(j) /\ wk[j].key = key}

\* C1: for every organisation id the registry holds at most one job in state
\* running, counting the workers that are still executing.
C1_AtMostOneRunningJob ==
  \A key \in RecordIds : Cardinality(NonTerminalJobs(key)) <= 1

\* C1 witness: the workers of two organisations execute at the same time.
C1_Witness ==
  /\ Executing(1) /\ Executing(2)
  /\ wk[1].key # wk[2].key
  /\ \A key \in RecordIds : Cardinality(NonTerminalJobs(key)) = 1

\* The registered job of `key` is in state running.
RegisteredRunning(key) ==
  JOBS[key] # 0 /\ IsJob(JOBS[key]) /\ heap[JOBS[key]].state = "running"

\* C2: while the registered job of a key is running, no step replaces it in
\* the registry, and a trigger answered for the key starts no worker, creates
\* and changes no job object and returns the running job's state and startedAt.
C2_TriggerWhileRunningJoins ==
  [][\A key \in RecordIds :
       RegisteredRunning(key) =>
         /\ JOBS'[key] = JOBS[key]
         /\ (lastTrigger' # lastTrigger /\ lastTrigger'.key = key) =>
              /\ JOBS' = JOBS /\ heap' = heap /\ pc' = pc /\ wk' = wk
              /\ lastTrigger'.state = heap[JOBS[key]].state
              /\ lastTrigger'.startedAt = heap[JOBS[key]].startedAt]_vars

\* C2 witness: a trigger was answered "already in progress" for a job whose
\* worker is past the fetch and still running.
C2_Witness ==
  /\ lastTrigger.kind = "response"
  /\ lastTrigger.message = "already in progress"
  /\ RegisteredRunning(lastTrigger.key)
  /\ pc[JOBS[lastTrigger.key]] = "write"
  /\ lastTrigger.startedAt = heap[JOBS[lastTrigger.key]].startedAt

C4_DoneHasAttachedDocument ==
  \A j \in JobIds :
    (IsJob(j) /\ heap[j].state = "done") =>
      /\ Cardinality({n \in DOMAIN startup.agreement : startup.agreement[n] = j}) = 1
      /\ \E n \in DOMAIN startup.agreement : startup.agreement[n] = 0

\* The three gates, as read from the store: the organization's form is
\* submitted, its confirmation is ticked, and a representative-flagged member
\* has submitted.
AllGatesSatisfied ==
  /\ startup.newFormSubmitted \/ startup.onboardingSubmitted
  /\ startup.submissionConfirmation
  /\ \E k \in DOMAIN members : members[k].representative /\ members[k].submitted

\* C5: a job whose fetch returned ends blocked when the gates are not all
\* satisfied, having made no Directory call, no refresh and no member write
\* (every member record is as it was); when all gates hold no job is blocked.
C5_GatesDecideBlocked ==
  \A key \in StoredRecords :
    LET j == JOBS[key]
    IN (j # 0 /\ IsJob(j)) =>
         /\ heap[j].state = "blocked" =>
              /\ ~AllGatesSatisfied
              /\ ~hist[j].called /\ hist[j].open = 0 /\ hist[j].trail = <<>>
              /\ \A k \in DOMAIN members :
                   members[k].validated = "" /\ members[k].validDate = ""
         /\ ~AllGatesSatisfied =>
              /\ ~hist[j].called
              /\ heap[j].state \in Terminal =>
                   \/ heap[j].state = "blocked"
                   \/ heap[j].state = "error" /\ hist[j].thrown = MsgFetch
         /\ AllGatesSatisfied => heap[j].state # "blocked"

\* C5 witness: over two members, one a submitted representative, a job is
\* blocked because the confirmation alone is missing.
C5_Witness ==
  /\ Len(members) = 2
  /\ startup.newFormSubmitted /\ ~startup.submissionConfirmation
  /\ \E k \in DOMAIN members : members[k].representative /\ members[k].submitted
  /\ \E key \in StoredRecords :
       JOBS[key] # 0 /\ heap[JOBS[key]].state = "blocked" /\ ~hist[JOBS[key]].called

\* C6: no job ends in state error because a Directory call of one member's
\* validation threw: a job in state error carries the message of the fetch,
\* the render or the cache write.
C6_MemberFailureNeverAborts ==
  \A j \in JobIds :
    (IsJob(j) /\ heap[j].state = "error") =>
      heap[j].result.message \in {MsgFetch, MsgRender, MsgCache}

\* C7: when a step of the worker throws, the job ends in state error with the
\* exception's message and the worker is over, and the member records keep
\* what was written before (the step that ends the job changes none).
C7_ThrowEndsInError ==
  [][\A j \in JobIds :
       /\ hist'[j].thrown # "" =>
            /\ heap'[j].state = "error"
            /\ heap'[j].result = [kind |-> "message", message |-> hist'[j].thrown]
            /\ pc'[j] = "finished"
       /\ hist'[j].thrown # hist[j].thrown => members' = members]_vars

\* C7 witness: the render threw after the first member was written Valid,
\* and the record still holds the written value.
C7_Witness ==
  \E j \in JobIds :
    /\ IsJob(j) /\ heap[j].state = "error"
    /\ hist[j].thrown = MsgRender /\ heap[j].result.message = MsgRender
    /\ Len(members) >= 1
    /\ members[1].validated = "Valid" /\ members[1].validDate = "today"

\* Per-member outcomes that are terminal.
TerminalStatuses == {"valid", "invalid", "ambiguous", "not_found", "error", "skipped"}

\* C8: progress.validated counts every checklist entry with a terminal
\* outcome, and in a done job it equals progress.total.
C8_ValidatedReachesTotal ==
  \A j \in JobIds :
    IsJob(j) =>
      /\ heap[j].progress.validated =
           Cardinality({k \in DOMAIN heap[j].members :
                          heap[j].members[k].status \in TerminalStatuses})
      /\ heap[j].state = "done" => heap[j].progress.validated = heap[j].progress.total

\* The trail of a worker is in order: a Resolver starts first or right after
\* the publication of an earlier member, a write follows the Resolver of its
\* member, a publication follows the write of its member.
OrderedTrail(t) ==
  \A p \in 1..Len(t) :
    CASE t[p][1] = "resolve" ->
           p = 1 \/ (t[p - 1][1] = "publish" /\ t[p - 1][2] < t[p][2])
      [] t[p][1] = "persist" -> p > 1 /\ t[p - 1] = <<"resolve", t[p][2]>>
      [] OTHER -> p > 1 /\ t[p - 1] = <<"persist", t[p][2]>>

StatusRank(status) ==
  IF status = "queued" THEN 0 ELSE IF status = "pending" THEN 1 ELSE 2

\* C10: from one poll of a job to the next (every step that changes the job
\* object) no checklist entry goes back (queued, then pending, then one
\* terminal status), an entry with a terminal status is not overwritten, and
\* progress.validated does not decrease.
C10_ChecklistNeverRegresses ==
  [][\A j \in JobIds :
       (IsJob(j) /\ heap'[j].kind = "job" /\ heap'[j] # heap[j]) =>
         LET before == sanitizeJob(heap[j])
             after == sanitizeJob(heap'[j])
         IN /\ after.progress.validated >= before.progress.validated
            /\ \A k \in DOMAIN before.members :
                 /\ k \in DOMAIN after.members
                 /\ StatusRank(after.members[k].status) >=
                      StatusRank(before.members[k].status)
                 /\ before.members[k].status \in TerminalStatuses =>
                      after.members[k] = before.members[k]]_vars

\* C10 witness: a poll sees the first entry terminal and counted while the
\* second is pending.
C10_Witness ==
  \E key \in RecordIds :
    /\ JOBS[key] # 0
    /\ LET view == sanitizeJob(heap[JOBS[key]])
       IN /\ Len(view.members) = 2
          /\ view.members[1].status \in TerminalStatuses
          /\ view.members[2].status = "pending"
          /\ view.progress.validated = 1

\* C11: while a member is validated there is at most one token refresh, made
\* only on a 401 result, and at most one retry of the Resolver, made only
\* after a refresh that succeeded; when the retry fails as well, the member is
\* written and published with outcome error, with no further refresh or retry.
C11_OneRefreshOneRetry ==
  [][\A j \in JobIds :
       /\ hist'[j].refreshes <= 1
       /\ hist'[j].resolves <= 1 + hist'[j].refreshes
       /\ hist'[j].resolves = 2 => hist'[j].refreshOk
       /\ pc'[j] = "refresh" => wk'[j].result.upstream = 401
       /\ (pc[j] \in {"search", "lookup"} /\ hist[j].resolves = 2) =>
            pc'[j] \in {pc[j], "lookup", "write", "finished"}
       /\ (pc[j] = "write" /\ pc'[j] # "write"
           /\ hist[j].resolves = 2 /\ wk[j].result.status = "error") =>
            /\ pc'[j] = "pace"
            /\ heap'[j].members[wk[j].i].status = "error"]_vars

\* C11 witness: after a refresh that succeeded the retry answered 401 again,
\* and the member goes to the write with that result.
C11_Witness ==
  \E j \in JobIds :
    /\ pc[j] = "write"
    /\ hist[j].refreshes = 1 /\ hist[j].refreshOk /\ hist[j].resolves = 2
    /\ wk[j].result.status = "error" /\ wk[j].result.upstream = 401

\* ================================================================ Resolver
\* validateDiscount of blackbaudDiscountValidator.js, followed on its own:
\* one query against one set of Directory answers.  The Directory answers a
\* constituent's codes and record the same way each time it is asked.

\* Largest number of constituents in the Directory's search response.
MaxCandidates == 2

StudentBucket == "Current UTS Student"
StaffBucket == "Current UTS Staff"
AlumniRecentBucket == "UTS Alumni (graduated within the last 12 months)"
AlumniOldBucket == "UTS Alumni (graduated more than 12 months ago)"
FormerStaffRecentBucket == "Former UTS Staff (employed within the last 12 months)"
FormerStaffOldBucket == "Former UTS Staff (employed more than 12 months ago)"

\* A constituent code: description, inactive, and the months between its
\* date and now (-1 when it carries no usable date).
Code(description, inactive, months) ==
  [description |-> description, inactive |-> inactive, months |-> months]

\* The buckets one code contributes.
BucketsOfCode(c) ==
  LET desc == TrimLower(c.description)
      recent == c.months # -1 /\ c.months <= 12
  IN IF desc = "student" THEN (IF ~c.inactive THEN {StudentBucket} ELSE {})
     ELSE IF desc = "staff"
     THEN (IF ~c.inactive THEN {StaffBucket}
           ELSE IF recent THEN {FormerStaffRecentBucket} ELSE {FormerStaffOldBucket})
     ELSE IF desc = "alumni"
     THEN (IF recent THEN {AlumniRecentBucket} ELSE {AlumniOldBucket})
     ELSE {}

inferBucketsFromCodes(codes) == UNION {BucketsOfCode(codes[k]) : k \in DOMAIN codes}

choosePrimaryBucket(buckets) ==
  LET order == <<StudentBucket, StaffBucket, AlumniRecentBucket, AlumniOldBucket,
                 FormerStaffRecentBucket, FormerStaffOldBucket>>
      hits == {k \in DOMAIN order : order[k] \in buckets}
  IN IF hits = {} THEN ""
     ELSE order[CHOOSE k \in hits : \A m \in hits : k <= m]

normalizeEmail(s) == TrimLower(s)

\* normalizeName, as the words of the normalized name.
normalizeName(s) ==
  CASE s = "Ana Lee"       -> <<"ana", "lee">>
    [] s = "Ana Maria Lee" -> <<"ana", "maria", "lee">>
    [] s = "Bo Lee"        -> <<"bo", "lee">>
    [] s = "Lee Ana"       -> <<"lee", "ana">>
    [] OTHER               -> <<>>

splitName(norm) ==
  IF Len(norm) = 0 THEN [first |-> <<>>, last |-> ""]
  ELSE IF Len(norm) = 1 THEN [first |-> norm, last |-> ""]
  ELSE [first |-> SubSeq(norm, 1, Len(norm) - 1), last |-> norm[Len(norm)]]

\* a.startsWith(b) on names given by their words (no word of the model is
\* the beginning of another).
StartsWith(a, b) == Len(b) <= Len(a) /\ SubSeq(a, 1, Len(b)) = b

WordsOf(norm) == {norm[k] : k \in DOMAIN norm}

scoreName(candidateName, expectedName) ==
  LET c == normalizeName(candidateName)
      e == normalizeName(expectedName)
      cs == splitName(c)
      es == splitName(e)
      inter == Cardinality(WordsOf(c) \cap WordsOf(e))
      union == Cardinality(WordsOf(c) \cup WordsOf(e))
  IN IF c = <<>> \/ e = <<>> THEN 0
     ELSE IF c = e THEN 100
     ELSE IF /\ cs.last # "" /\ es.last # "" /\ cs.last = es.last
             /\ (StartsWith(cs.first, es.first) \/ StartsWith(es.first, cs.first))
     THEN 85
     ELSE IF 2 * inter >= union THEN 60
     ELSE 0

\* results.filter(r => String(r.lookup_id) !== id)
PoolOf(results, id) ==
  LET Keep(r) == r.lookup_id # id
  IN SelectSeq(results, Keep)

\* A resolution that takes the first pool candidate whatever the query says.
resolveCandidateFirstOfPool(results, searchId, email, name) ==
  LET pool == PoolOf(results, Trim(searchId))
  IN IF Len(pool) = 0 THEN None ELSE pool[1]

\* resolveCandidate: the candidate picked by email or name, None for null.
resolveCandidate(results, searchId, email, name) ==
  LET pool == PoolOf(results, Trim(searchId))
      emailNorm == normalizeEmail(email)
      emailHits == {k \in DOMAIN pool : normalizeEmail(pool[k].email) = emailNorm}
      score(k) == scoreName(pool[k].name, name)
      \* scored.sort((a, b) => b.s - a.s) is stable: the top is the first
      \* of the best, the second the best of the rest
      top == CHOOSE k \in DOMAIN pool :
               \A m \in DOMAIN pool : score(k) > score(m) \/ (score(k) = score(m) /\ k <= m)
      second == CHOOSE v \in {score(m) : m \in DOMAIN pool \ {top}} :
                  \A m \in DOMAIN pool \ {top} : v >= score(m)
      eLast == splitName(normalizeName(name)).last
      lastMatches == {k \in DOMAIN pool : splitName(normalizeName(pool[k].name)).last = eLast}
  IN IF Len(pool) = 0 THEN None
     ELSE IF Len(pool) = 1 THEN pool[1]
     ELSE IF emailNorm # "" /\ emailHits # {}
     THEN pool[CHOOSE k \in emailHits : \A m \in emailHits : k <= m]
     ELSE IF name # "" /\ score(top) > 0
     THEN IF score(top) >= 85 \/ score(top) - second >= 15 THEN pool[top]
          ELSE IF eLast # "" /\ Cardinality(lastMatches) = 1
          THEN pool[CHOOSE k \in lastMatches : TRUE]
          ELSE None
     ELSE None

\* A birth date or its parts; 0 stands for a part that is absent.
Ymd(y, m, d) == [y |-> y, m |-> m, d |-> d]

parseDobInput(dob) ==
  CASE dob = "2000-01-02" -> Ymd(2000, 1, 2)
    [] dob = "02/01/2000" -> Ymd(2000, 1, 2)
    [] dob = "2000"       -> Ymd(2000, 0, 0)
    [] OTHER              -> None

matchDob(candidateBirthdate, dobExpected) ==
  IF candidateBirthdate = None \/ dobExpected = None THEN FALSE
  ELSE /\ dobExpected.y # 0 => candidateBirthdate.y = dobExpected.y
       /\ dobExpected.m # 0 => candidateBirthdate.m = dobExpected.m
       /\ dobExpected.d # 0 => candidateBirthdate.d = dobExpected.d

\* sanitizeId on the ids of the model.
sanitizeId(s) ==
  CASE s = " A100." -> "A100"
    [] OTHER        -> Trim(s)

\* One Directory call and the status it answered.
Call(name, id, status) == [call |-> name, id |-> id, status |-> status]

\* The calls resolveByDob makes: the record of every pool candidate, in order.
DetailCalls(pool) == [k \in DOMAIN pool |-> Call("byId", pool[k].id, pool[k].detail.status)]

\* resolveByDob: the one pool candidate whose birth date matches, or None.
resolveByDob(pool, dobStr) ==
  LET target == parseDobInput(dobStr)
      matches == {k \in DOMAIN pool :
                    /\ pool[k].detail.status = 200
                    /\ matchDob(pool[k].detail.birthdate, target)}
  IN IF target = None THEN None
     ELSE IF Cardinality(matches) = 1 THEN pool[CHOOSE k \in matches : TRUE]
     ELSE None

\* The value validateDiscount returns, with the Directory calls it made.
\* upstream is the status quoted in reason ("search 401", "codes 500"),
\* 0 when reason quotes none.
Resolved(status, valid, upstream, buckets, recordId, candidates, qualifies, calls) ==
  [status |-> status, valid |-> valid, upstream |-> upstream,
   derived_buckets |-> buckets, bb_record_id |-> recordId,
   candidates |-> candidates, qualifies_other |-> qualifies, calls |-> calls]

\* evaluateSingle: the codes of the resolved candidate decide.
evaluateSingle(resolved, expected_bucket, calls) ==
  LET cr == resolved.codes
      made == Append(calls, Call("codes", resolved.id, cr.status))
      buckets == inferBucketsFromCodes(cr.value)
      valid == IF expected_bucket # "" THEN expected_bucket \in buckets ELSE buckets # {}
  IN IF cr.status # 200
     THEN Resolved("error", FALSE, cr.status, {}, resolved.id, <<>>, FALSE, made)
     ELSE Resolved(IF valid THEN "valid" ELSE "invalid", valid, 0, buckets,
                   resolved.id, <<>>,
                   ~valid /\ buckets # {} /\ expected_bucket # "", made)

\* The multi-candidate evaluation: the codes of every pool candidate are
\* fetched; a candidate whose codes call is not answered 200 is left out.
EvaluatedOf(pool) ==
  LET Answered200(r) == r.codes.status = 200
  IN SelectSeq(pool, Answered200)

CodesCalls(pool) == [k \in DOMAIN pool |-> Call("codes", pool[k].id, pool[k].codes.status)]

IdsOf(cands) == [k \in DOMAIN cands |-> cands[k].id]

validateDiscount(query, reply) ==
  LET sanitized == sanitizeId(query.search_id)
      expected == query.expected_bucket
      searched == <<Call("search", sanitized, reply.status)>>
      value == reply.value
      byEmailOrName == resolveCandidate(value, sanitized, query.email, query.name)
      pool == PoolOf(value, sanitized)
      askDob == byEmailOrName = None /\ query.dob # ""
      \* resolveByDob returns before any call when the date does not parse
      afterDob == IF askDob /\ parseDobInput(query.dob) # None
                  THEN searched \o DetailCalls(pool) ELSE searched
      candidate == IF askDob /\ resolveByDob(pool, query.dob) # None
                   THEN resolveByDob(pool, query.dob) ELSE byEmailOrName
      evaluated == EvaluatedOf(pool)
      afterCodes == afterDob \o CodesCalls(pool)
      Matches(r) == IF expected # "" THEN expected \in inferBucketsFromCodes(r.codes.value)
                    ELSE inferBucketsFromCodes(r.codes.value) # {}
      expectedMatches == SelectSeq(evaluated, Matches)
  IN IF reply.status # 200
     THEN Resolved("error", FALSE, reply.status, {}, "", <<>>, FALSE, searched)
     ELSE IF Len(value) = 0
     THEN Resolved("not_found", FALSE, 0, {}, "", <<>>, FALSE, searched)
     ELSE IF candidate # None
     THEN evaluateSingle(candidate, expected, afterDob)
     ELSE IF Len(pool) = 0
     THEN Resolved("not_found", FALSE, 0, {}, "", <<>>, FALSE, afterDob)
     ELSE IF expected # "" /\ Len(expectedMatches) = 1
     THEN evaluateSingle(expectedMatches[1], expected, afterCodes)
     ELSE IF expected # "" /\ Len(expectedMatches) > 1
     THEN Resolved("ambiguous", FALSE, 0, {}, "", IdsOf(expectedMatches), FALSE, afterCodes)
     ELSE Resolved("invalid", FALSE, 0, {}, "", IdsOf(evaluated), FALSE, afterCodes)

\* Constituents the Directory may return, each with the Directory's answers
\* to the codes call and the record call for it.
Constituent(id, lookup_id, email, name, codesStatus, codes, detailStatus, birthdate) ==
  [id |-> id, lookup_id |-> lookup_id, email |-> email, name |-> name,
   codes |-> [status |-> codesStatus, value |-> codes],
   detail |-> [status |-> detailStatus, birthdate |-> birthdate]]

CandidateProfiles ==
  { Constituent("c1", "L1", "ANA@UTS.EDU", "Ana Lee", 200,
                <<Code("Student", FALSE, -1)>>, 200, Ymd(2000, 1, 2)),
    Constituent("c2", "L2", "bo@uts.edu", "Ana Maria Lee", 200,
                <<Code("Staff", FALSE, -1)>>, 200, Ymd(1990, 5, 6)),
    Constituent("c3", "L3", "", "Bo Lee", 500, <<>>, 200, Ymd(2000, 1, 2)),
    Constituent("c4", "L4", "", "Lee Ana", 200,
                <<Code("Student", FALSE, -1), Code("Alumni", FALSE, 6)>>, 401, None),
    Constituent("c5", "A100", "ana@uts.edu", "Ana Lee", 200,
                <<Code("Student", FALSE, -1)>>, 200, Ymd(2000, 1, 2)),
    Constituent("c6", "L6", "", "", 200, <<Code("Staff", TRUE, 30)>>, 200, None),
    Constituent("c7", "L7", "ana@uts.edu", "Ana Lee", 200,
                <<Code("Staff", FALSE, -1)>>, 200, Ymd(1990, 5, 6)) }

\* Search responses: up to MaxCandidates different constituents, in any order.
SearchValues ==
  UNION { {v \in [1..n -> CandidateProfiles] : \A a, b \in 1..n : a # b => v[a] # v[b]}
          : n \in 0..MaxCandidates }

SearchReplies ==
  {[status |-> 200, value |-> v] : v \in SearchValues}
    \cup {[status |-> st, value |-> <<>>] : st \in {401, 500}}

Queries ==
  [search_id : {"A100"}, expected_bucket : {StudentBucket, ""},
   email : {"ana@uts.edu", ""}, name : {"Ana Lee", ""}, dob : {"2000-01-02", ""}]

\* The orchestrator's variables.
orch == <<startup, members, JOBS, heap, pc, wk, clock, lastTrigger, hist>>

\* The orchestrator before any request, over an empty store.
OrchestratorIdle ==
  /\ startup = [newFormSubmitted |-> FALSE, onboardingSubmitted |-> FALSE,
                submissionConfirmation |-> FALSE, agreement |-> <<0>>]
  /\ members = <<>>
  /\ JOBS = [k \in RecordIds |-> 0]
  /\ heap = [j \in JobIds |-> None]
  /\ pc = [j \in JobIds |-> "unborn"]
  /\ wk = [j \in JobIds |-> None]
  /\ clock = 0
  /\ lastTrigger = None
  /\ hist = [j \in JobIds |-> NoHist]

ResolveInit ==
  /\ OrchestratorIdle
  /\ rs \in [query : Queries, reply : SearchReplies, out : {None}]
  /\ dl = None
  /\ pr = None

\* validateDiscount runs to its return.
Resolve ==
  /\ rs.out = None
  /\ rs' = [rs EXCEPT !.out = validateDiscount(rs.query, rs.reply)]
  /\ UNCHANGED <<dl, pr>>
  /\ UNCHANGED orch

ResolveNext == Resolve

ResolveSpec == ResolveInit /\ [][ResolveNext]_vars

\* C12: when a Directory call made during resolve was answered with a status
\* other than 200, the outcome is error and carries such a status.
C12_Non200SurfacesAsError ==
  rs.out # None =>
    LET failed == {k \in DOMAIN rs.out.calls : rs.out.calls[k].status # 200}
    IN failed # {} =>
         /\ rs.out.status = "error"
         /\ \E k \in failed : rs.out.upstream = rs.out.calls[k].status

\* The Resolver was started for member k in the pass of job j.
ResolverInvoked(j, k) ==
  \E p \in DOMAIN hist[j].trail : hist[j].trail[p] = <<"resolve", k>>

\* The loop of job j is past member k.
PassedMember(j, k) ==
  \/ pc[j] \in {"payload", "render", "cache", "attach", "stamp"}
  \/ IsJob(j) /\ heap[j].state = "done"
  \/ pc[j] \in {"search", "lookup", "refresh", "write", "pace"} /\ wk[j].i > k

\* C13: for a member whose manual-override category is set the Resolver is
\* never invoked, and once the pass is past the member its outcome is skipped.
C13_ManualCategoryIsSkipped ==
  \A j \in JobIds : \A k \in DOMAIN members :
    Trim(members[k].manualCat) # "" =>
      /\ ~ResolverInvoked(j, k)
      /\ PassedMember(j, k) => heap[j].members[k].status = "skipped"

\* Expected categories that request no discount: empty, or the sentinel
\* "None of the above" in any letter case.
NoDiscountTexts == {"", "None of the above", "NONE OF THE ABOVE ", "none of the above"}

\* C14: for a member without manual override whose expected category is
\* empty or the none sentinel the Resolver is never invoked, and once the
\* pass is past the member its outcome is skipped with reason code no_request.
C14_NoRequestIsSkipped ==
  \A j \in JobIds : \A k \in DOMAIN members :
    (Trim(members[k].manual) = "" /\ members[k].expected \in NoDiscountTexts) =>
      /\ ~ResolverInvoked(j, k)
      /\ PassedMember(j, k) =>
           /\ heap[j].members[k].status = "skipped"
           /\ heap[j].members[k].reason_code = "no_request"
           /\ sanitizeJob(heap[j]).members[k].reason_code = "no_request"

\* C14 witness: a done job whose second member carries the sentinel in
\* capitals and was skipped with no_request, after a first member that went
\* through the Resolver.
C14_Witness ==
  \E j \in JobIds :
    /\ IsJob(j) /\ heap[j].state = "done" /\ Len(members) = 2
    /\ members[2].expected = "NONE OF THE ABOVE "
    /\ ResolverInvoked(j, 1) /\ ~ResolverInvoked(j, 2)
    /\ heap[j].members[2].status = "skipped"
    /\ heap[j].members[2].reason_code = "no_request"

\* The reason codes a status poll may carry.
PublicReasonCodes ==
  {"validated", "ambiguous", "unauthorized", "not_found", "mismatch", "error",
   "no_request", "manual"}

\* C15: in every job state the status view carries, per member, a reason
\* code that is null or one of the fixed vocabulary, and its result is either
\* absent or the document reference alone (url, filename, expiresAt): the
\* exception message of an error job, the gate details of a blocked job and
\* the raw Resolver results of a done job are not in it.
C15_StatusIsSanitized ==
  \A j \in JobIds :
    IsJob(j) =>
      LET view == sanitizeJob(heap[j])
      IN /\ DOMAIN view = {"state", "progress", "members", "result"}
         /\ \A k \in DOMAIN view.members :
              view.members[k].reason_code \in PublicReasonCodes \cup {""}
         /\ \/ view.result = [kind |-> "undefined"]
            \/ /\ DOMAIN view.result = {"kind", "pdf"}
               /\ DOMAIN view.result.pdf = {"url", "filename", "expiresAt"}
         /\ heap[j].state \in {"error", "blocked", "running"} =>
              view.result = [kind |-> "undefined"]
         /\ heap[j].state = "done" => view.result.kind = "pdf"

C15_Witness ==
  \E j \in JobIds :
    /\ IsJob(j)
    /\ heap[j].state = "error"
    /\ heap[j].result = [kind |-> "message", message |-> MsgRender]
    /\ sanitizeJob(heap[j]).result = [kind |-> "undefined"]
    /\ \E k \in DOMAIN heap[j].members :
         sanitizeJob(heap[j]).members[k].reason_code = "mismatch"

\* ---------------------------------------------------------------------
\* Document retrieval: GET /download/:token and the expiry sweep.
\* ---------------------------------------------------------------------

MaxRequests == 3
MaxTime == 2

\* URL_TTL_SECONDS, the lifetime of a token; the clock counts in lifetimes.
URL_TTL == 1

DownloadTokens == {"d1", "d2"}

\* The two servers that hold the route: the web server answers a token it
\* does not hold with 410, the generator with 404.
Servers == {"web", "generator"}

MissingStatus(server) == IF server = "generator" THEN 404 ELSE 410

\* The requests that have been given document bytes for token t.
Served(reqs, t) == {i \in DOMAIN reqs : reqs[i].token = t /\ reqs[i].bytes}

DownloadInit ==
  /\ OrchestratorIdle
  /\ rs = None
  /\ pr = None
  /\ dl \in [server : Servers,
              now : {0},
              PDF_TOKENS : {[t \in DownloadTokens |-> None]},
              files : {{}},
              issued : {[t \in DownloadTokens |-> None]},
              reqs : {<<>>}]

\* PDF_TOKENS.set after the file was written: a fresh random token.
Mint(t) ==
  /\ dl.issued[t] = None
  /\ LET entry == [expiresAt |-> dl.now + URL_TTL]
     IN dl' = [dl EXCEPT !.PDF_TOKENS[t] = entry,
                         !.issued[t] = entry,
                         !.files = @ \cup {t}]
  /\ UNCHANGED <<rs, pr>>
  /\ UNCHANGED orch

\* Date.now() advances.
Tick ==
  /\ dl.now < MaxTime
  /\ dl' = [dl EXCEPT !.now = @ + 1]
  /\ UNCHANGED <<rs, pr>>
  /\ UNCHANGED orch

\* The handler of GET /download/:token up to the point where it answers or
\* hands the file stream to the response.  late records whether the request
\* arrived after the expiry of the token or after bytes of it were given out.
Arrive(t) ==
  /\ Len(dl.reqs) < MaxRequests
  /\ dl.issued[t] # None
  /\ LET entry == dl.PDF_TOKENS[t]
         late == dl.now > dl.issued[t].expiresAt \/ Served(dl.reqs, t) # {}
         req(phase, status) == [token |-> t, phase |-> phase, status |-> status,
                                bytes |-> FALSE, late |-> late]
     IN IF entry = None
        THEN dl' = [dl EXCEPT !.reqs = Append(@, req("answered", MissingStatus(dl.server)))]
        ELSE IF dl.now > entry.expiresAt
        THEN dl' = [dl EXCEPT !.PDF_TOKENS[t] = None,
                              !.files = @ \ {t},
                              !.reqs = Append(@, req("answered", 410))]
        ELSE dl' = [dl EXCEPT !.reqs = Append(@, req("open", 200))]
  /\ UNCHANGED <<rs, pr>>
  /\ UNCHANGED orch

\* The read stream opens the cached file: the bytes flow if the file is
\* there, the stream fails if it was removed in the meantime.
StreamOpens(i) ==
  /\ i \in DOMAIN dl.reqs
  /\ dl.reqs[i].phase = "open"
  /\ IF dl.reqs[i].token \in dl.files
     THEN dl' = [dl EXCEPT !.reqs[i].phase = "streaming", !.reqs[i].bytes = TRUE]
     ELSE dl' = [dl EXCEPT !.reqs[i].phase = "failed"]
  /\ UNCHANGED <<rs, pr>>
  /\ UNCHANGED orch

\* stream.on("close"): the token and the file are removed.
StreamCloses(i) ==
  /\ i \in DOMAIN dl.reqs
  /\ dl.reqs[i].phase = "streaming"
  /\ dl' = [dl EXCEPT !.reqs[i].phase = "closed",
                      !.PDF_TOKENS[dl.reqs[i].token] = None,
                      !.files = @ \ {dl.reqs[i].token}]
  /\ UNCHANGED <<rs, pr>>
  /\ UNCHANGED orch

\* One iteration of the periodic sweep: an expired token and its file go.
Sweep(t) ==
  /\ dl.PDF_TOKENS[t] # None
  /\ dl.now > dl.PDF_TOKENS[t].expiresAt
  /\ dl' = [dl EXCEPT !.PDF_TOKENS[t] = None, !.files = @ \ {t}]
  /\ UNCHANGED <<rs, pr>>
  /\ UNCHANGED orch

DownloadNext ==
  \/ \E t \in DownloadTokens : Mint(t)
  \/ Tick
  \/ \E t \in DownloadTokens : Arrive(t)
  \/ \E i \in 1..MaxRequests : StreamOpens(i)
  \/ \E i \in 1..MaxRequests : StreamCloses(i)
  \/ \E t \in DownloadTokens : Sweep(t)

DownloadSpec == DownloadInit /\ [][DownloadNext]_vars

\* C16: over all interleavings of download requests and the expiry sweep a
\* token yields the document bytes at most once, and a request that arrives
\* after the expiry of its token, or after bytes of it were given out, gets
\* no bytes and is answered 410.
C16_TokenYieldsBytesAtMostOnce ==
  dl # None =>
    /\ \A t \in DownloadTokens : Cardinality(Served(dl.reqs, t)) <= 1
    /\ \A i \in DOMAIN dl.reqs :
         dl.reqs[i].late =>
           /\ ~dl.reqs[i].bytes
           /\ dl.reqs[i].phase = "answered" => dl.reqs[i].status = 410

\* ---------------------------------------------------------------------
\* Progress of the detached worker.
\* ---------------------------------------------------------------------

\* The continuation of worker j after the call it awaits returned or threw.
WorkerStep(j) ==
  \/ FetchReturn(j)
  \/ SearchReturn(j)
  \/ LookupReturn(j)
  \/ RefreshReturn(j)
  \/ WriteReturn(j)
  \/ PaceDone(j)
  \/ PayloadReturn(j)
  \/ RenderReturn(j)
  \/ CacheReturn(j)
  \/ AttachReturn(j)
  \/ StampReturn(j)

\* Every awaited call of every worker returns or throws, and the event loop
\* then runs the continuation.
LiveSpec == Spec /\ \A j \in JobIds : WF_vars(WorkerStep(j))

\* C17: when every external call eventually returns or throws, every job
\* that enters running eventually reaches done, error or blocked.
C17_RunningJobTerminates ==
  \A j \in JobIds :
    (IsJob(j) /\ heap[j].state = "running")
      ~> (IsJob(j) /\ heap[j].state \in {"done", "error", "blocked"})

C17_Witness ==
  \E j \in JobIds :
    /\ IsJob(j)
    /\ heap[j].state = "done"
    /\ pc[j] = "finished"
    /\ wk[j] = None
    /\ Len(hist[j].trail) >= 3

\* ---------------------------------------------------------------------
\* Pricing: the monthly fee computed while the payload is built.
\* ---------------------------------------------------------------------

MaxPriced == 2

FullMembership == "Full Membership"
CasualMembership == "Casual Membership"
DayMembership == "Day Membership"

\* normaliseType, on the Membership Type texts of the records below.
normaliseType(raw) ==
  CASE raw = "Full Membership"   -> FullMembership
    [] raw = "Casual Membership" -> CasualMembership
    [] raw = "Day Membership"    -> DayMembership
    [] raw = "day pass"          -> DayMembership
    [] OTHER                     -> CasualMembership

ColStudent == "Current UTS Student"
ColStaff == "Current Staff"
ColAlumniWithin == "UTS Alumni < 12m"
ColAlumniOver == "UTS Alumni > 12m"
ColFormerWithin == "Former Staff < 12m"
ColFormerOver == "Former Staff > 12m"

Columns ==
  {ColStudent, ColStaff, ColAlumniWithin, ColAlumniOver, ColFormerWithin, ColFormerOver}

\* discountColumnFor, on the category texts of the records below ("" for
\* null): keyword match on the lower-cased text.
discountColumnFor(category) ==
  CASE category = "Current UTS Student"                        -> ColStudent
    [] category = "Current UTS Staff"                          -> ColStaff
    [] category = "UTS Alumni within the last 12 months"       -> ColAlumniWithin
    [] category = "UTS Alumni more than 12 months"             -> ColAlumniOver
    [] category = "Former UTS Staff within the last 12 months" -> ColFormerWithin
    [] category = "Former UTS Staff more than 12 months"       -> ColFormerOver
    [] OTHER                                                   -> ""

\* An effective category that never looks at the manual fields.
effectiveDiscountCategoryExpectedOnly(rec) == rec.expected

\* effectiveDiscountCategory: the manual category when the manual check and
\* the manual category are both non-blank, the expected category otherwise.
effectiveDiscountCategory(rec) ==
  IF Trim(rec.manual) # "" /\ Trim(rec.manualCat) # ""
  THEN rec.manualCat
  ELSE rec.expected

\* isDiscountValidated: manual check 'valid' with a manual category, or the
\* validation the worker wrote.
isDiscountValidated(rec) ==
  \/ TrimLower(rec.manual) = "valid" /\ Trim(rec.manualCat) # ""
  \/ TrimLower(rec.validated) = "valid"

\* validationIsValid of the generator: the written validation only.
validationIsValid(rec) == TrimLower(rec.validated) = "valid"

\* A row of the pricing table as the store returns it: the base rate and the
\* cells of the columns the table has.
TableRow(base, cells) == [base |-> base, cells |-> cells]

\* Number(String(f[col] || "").replace(...)) || 0: the number in the cell, 0
\* for a cell the record does not have.
CellNumber(cells, col) == IF col \in DOMAIN cells THEN cells[col] ELSE 0

\* loadPricingMatrixViaSDK and loadPricingMatrix: per membership type the
\* base rate and a rate for each of the six columns.
loadPricingMatrix(table) ==
  [type \in DOMAIN table |->
     [base |-> table[type].base,
      discounts |-> [col \in Columns |-> CellNumber(table[type].cells, col)]]]

\* matrix[type] || { base: 0, discounts: {} }
RowOf(matrix, type) ==
  IF type \in DOMAIN matrix THEN matrix[type]
  ELSE [base |-> 0, discounts |-> [col \in {} |-> 0]]

\* The fee of one counted member in the web server's pricing loop.
webFee(rec, matrix) ==
  LET row == RowOf(matrix, normaliseType(rec.type))
      col == discountColumnFor(effectiveDiscountCategory(rec))
      direct == col # "" /\ col \in DOMAIN row.discounts
      fallback == /\ ~direct
                  /\ col \in {ColStudent, ColStaff}
                  /\ ColAlumniWithin \in DOMAIN row.discounts
  IN IF ~isDiscountValidated(rec) THEN row.base
     ELSE IF direct THEN row.discounts[col]
     ELSE IF fallback THEN row.discounts[ColAlumniWithin]
     ELSE row.base

\* rateForMember of the generator.
rateForMember(rec, matrix) ==
  LET type == normaliseType(rec.type)
      row == RowOf(matrix, type)
      col == discountColumnFor(rec.expected)
  IN IF type = DayMembership THEN 0
     ELSE IF validationIsValid(rec) /\ col # "" /\ col \in DOMAIN row.discounts
     THEN row.discounts[col]
     ELSE row.base

\* A pricing loop that adds the fee of Day members too.
LineOfCountingDay(server, rec, matrix) ==
  IF server = "generator"
  THEN [counted |-> TRUE, fee |-> rateForMember(rec, matrix)]
  ELSE IF ~asOne(rec.submitted)
  THEN [counted |-> FALSE, fee |-> 0]
  ELSE [counted |-> TRUE, fee |-> webFee(rec, matrix)]

\* What one record adds to the sum: the web server goes over the submitted
\* records and skips Day members; the generator adds rateForMember of every
\* record.
LineOf(server, rec, matrix) ==
  IF server = "generator"
  THEN [counted |-> TRUE, fee |-> rateForMember(rec, matrix)]
  ELSE IF ~asOne(rec.submitted) \/ normaliseType(rec.type) = DayMembership
  THEN [counted |-> FALSE, fee |-> 0]
  ELSE [counted |-> TRUE, fee |-> webFee(rec, matrix)]

RECURSIVE SumLines(_, _)
\* let sum = 0; for (...) sum += fee
SumLines(lines, k) ==
  IF k > Len(lines) THEN 0 ELSE lines[k].fee + SumLines(lines, k + 1)

FeeAmount == "AUD <sum> per month plus GST"
FeeWaived == "AUD 0.00 per month (waived)"
FeeNone == "No monthly fee (Day Memberships charged per-day)"
FeePlaceholder == "AUD 0.00 per month (placeholder)"

\* calculated_monthly_fee of the payload.  On a zero sum the generator looks
\* for a Full or Casual record among the team members; the web server reads
\* fullCount and casualCount, which are declared nowhere, so the branch throws
\* a ReferenceError, the catch around the pricing block logs it, the fee text
\* stays empty and the payload takes the placeholder.
feeText(server, sum, team) ==
  IF sum > 0 THEN FeeAmount
  ELSE IF server = "generator"
  THEN IF \E k \in DOMAIN team :
            normaliseType(team[k].type) \in {FullMembership, CasualMembership}
       THEN FeeWaived
       ELSE FeeNone
  ELSE FeePlaceholder

\* The pricing block: the matrix is loaded, the records are gone over.
computeFee(server, team, table) ==
  LET matrix == loadPricingMatrix(table)
      lines == [k \in DOMAIN team |-> LineOf(server, team[k], matrix)]
      sum == SumLines(lines, 1)
  IN [sum |-> sum, lines |-> lines, matrix |-> matrix,
      fee |-> feeText(server, sum, team)]

\* Team Members records as the pricing block reads them.
PricedProfiles ==
  { [type |-> "Full Membership", submitted |-> TRUE, manual |-> "", manualCat |-> "",
     expected |-> "Current UTS Student", validated |-> ""],
    [type |-> "Day Membership", submitted |-> TRUE, manual |-> "", manualCat |-> "",
     expected |-> "Current UTS Student", validated |-> "Valid"],
    [type |-> "Full Membership", submitted |-> FALSE, manual |-> "", manualCat |-> "",
     expected |-> "", validated |-> ""],
    [type |-> "Casual Membership", submitted |-> TRUE, manual |-> "", manualCat |-> "",
     expected |-> "Current UTS Student", validated |-> "Valid"],
    [type |-> "Full Membership", submitted |-> TRUE, manual |-> "Invalid",
     manualCat |-> "Current UTS Staff",
     expected |-> "Current UTS Student", validated |-> "Valid"],
    [type |-> "Casual Membership", submitted |-> TRUE, manual |-> "Valid",
     manualCat |-> "UTS Alumni more than 12 months",
     expected |-> "Current UTS Student", validated |-> ""],
    [type |-> "Full Membership", submitted |-> TRUE, manual |-> "Valid", manualCat |-> "",
     expected |-> "Current UTS Staff", validated |-> "Invalid"],
    [type |-> "Part-time", submitted |-> TRUE, manual |-> "", manualCat |-> "",
     expected |-> "None of the above", validated |-> "Valid"] }

Teams == UNION { [1..n -> PricedProfiles] : n \in 0..MaxPriced }

\* Pricing tables: one with all six columns in every row, one without the
\* two 'Current' columns and without 'UTS Alumni > 12m'.
PricingTables ==
  { (FullMembership :> TableRow(40, (ColStudent :> 10) @@ (ColStaff :> 12)
                                      @@ (ColAlumniWithin :> 20) @@ (ColAlumniOver :> 30)
                                      @@ (ColFormerWithin :> 22) @@ (ColFormerOver :> 32)))
      @@ (CasualMembership :> TableRow(16, (ColStudent :> 4) @@ (ColStaff :> 5)
                                             @@ (ColAlumniWithin :> 8) @@ (ColAlumniOver :> 12)
                                             @@ (ColFormerWithin :> 9) @@ (ColFormerOver :> 13)))
      @@ (DayMembership :> TableRow(3, (ColStudent :> 1) @@ (ColStaff :> 1)
                                          @@ (ColAlumniWithin :> 2) @@ (ColAlumniOver :> 2)
                                          @@ (ColFormerWithin :> 2) @@ (ColFormerOver :> 2))),
    (FullMembership :> TableRow(40, (ColAlumniWithin :> 20)
                                      @@ (ColFormerWithin :> 22) @@ (ColFormerOver :> 32)))
      @@ (CasualMembership :> TableRow(16, (ColAlumniWithin :> 8)
                                             @@ (ColFormerWithin :> 9) @@ (ColFormerOver :> 13)))
      @@ (DayMembership :> TableRow(3, (ColAlumniWithin :> 2))) }

PricingInit ==
  /\ OrchestratorIdle
  /\ rs = None
  /\ dl = None
  /\ pr \in [server : Servers, team : Teams, table : PricingTables, out : {None}]

Price ==
  /\ pr.out = None
  /\ pr' = [pr EXCEPT !.out = computeFee(pr.server, pr.team, pr.table)]
  /\ UNCHANGED <<rs, dl>>
  /\ UNCHANGED orch

PricingNext == Price

PricingSpec == PricingInit /\ [][PricingNext]_vars

\* The rate the server's rate rule gives a record.
RateOf(server, rec, matrix) ==
  IF server = "generator" THEN rateForMember(rec, matrix) ELSE webFee(rec, matrix)

RECURSIVE RateSum(_, _, _, _)
\* The sum of the rates of the records of team whose index is in ks.
RateSum(server, team, matrix, ks) ==
  IF ks = {} THEN 0
  ELSE LET k == CHOOSE x \in ks : TRUE
       IN RateOf(server, team[k], matrix) + RateSum(server, team, matrix, ks \ {k})

\* The Full and Casual members of a team.
FullOrCasual(team) ==
  {k \in DOMAIN team : normaliseType(team[k].type) \in {FullMembership, CasualMembership}}

\* One unvalidated Full member and one Day member, in either order.
OneFullOneDay(team) ==
  /\ Len(team) = 2
  /\ \E a, b \in 1..2 :
       /\ a # b
       /\ normaliseType(team[a].type) = FullMembership
       /\ ~isDiscountValidated(team[a])
       /\ normaliseType(team[b].type) = DayMembership

Counted(server, team) ==
  {k \in FullOrCasual(team) : server = "generator" \/ asOne(team[k].submitted)}

EffectiveIsManual(rec) == Trim(rec.manual) # "" /\ Trim(rec.manualCat) # ""

MarkedValid(rec) ==
  IF EffectiveIsManual(rec)
  THEN TrimLower(rec.manual) = "valid"
  ELSE TrimLower(rec.validated) = "valid"

\* C19: on the web server a Full or Casual member is charged a discounted
\* matrix rate only if its effective category is marked valid, and the base
\* rate of its type otherwise; the effective category is the manual category
\* when the manual check and the manual category are both non-empty, and the
\* expected category in every other case.
C19_DiscountOnlyIfEffectiveCategoryValid ==
  (pr # None /\ pr.out # None /\ pr.server = "web") =>
    \A k \in Counted(pr.server, pr.team) :
      LET rec == pr.team[k]
          row == RowOf(pr.out.matrix, normaliseType(rec.type))
      IN /\ effectiveDiscountCategory(rec) =
              (IF EffectiveIsManual(rec) THEN rec.manualCat ELSE rec.expected)
         /\ ~MarkedValid(rec) => pr.out.lines[k].fee = row.base

\* C20: on the web server, when the category of a validated member maps to
\* a column that the pricing table row of its membership type does not have,
\* the member's rate is the alumni-within-12-months rate of that row if the
\* column is current-student or current-staff, and the base rate otherwise.
C20_AbsentColumnFallsBack ==
  (pr # None /\ pr.out # None /\ pr.server = "web") =>
    \A k \in Counted(pr.server, pr.team) :
      LET rec == pr.team[k]
          type == normaliseType(rec.type)
          col == discountColumnFor(effectiveDiscountCategory(rec))
      IN (/\ isDiscountValidated(rec)
          /\ type \in DOMAIN pr.table
          /\ col # ""
          /\ col \notin DOMAIN pr.table[type].cells) =>
           pr.out.lines[k].fee =
             (IF col \in {ColStudent, ColStaff}
                 /\ ColAlumniWithin \in DOMAIN pr.table[type].cells
              THEN pr.table[type].cells[ColAlumniWithin]
              ELSE pr.table[type].base)

\* C21: when the summed fee is zero, the fee of the payload is the 'waived'
\* zero if at least one Full or Casual member exists, and 'no monthly fee' if
\* every member is Day-type.
C21_ZeroSumFeeText ==
  (pr # None /\ pr.out # None /\ pr.out.sum = 0) =>
    pr.out.fee = (IF FullOrCasual(pr.team) # {} THEN FeeWaived ELSE FeeNone)

\* The pool of a run of the Resolver, and whether email, name and birth date
\* left several pool candidates unresolved.
PoolOfRun(run) == PoolOf(run.reply.value, sanitizeId(run.query.search_id))

Unresolved(run) ==
  /\ run.reply.status = 200
  /\ Len(PoolOfRun(run)) >= 2
  /\ resolveCandidate(run.reply.value, sanitizeId(run.query.search_id),
                      run.query.email, run.query.name) = None
  /\ run.query.dob # "" => resolveByDob(PoolOfRun(run), run.query.dob) = None

\* The pool candidates whose codes give the bucket.
Holders(pool, bucket) ==
  {k \in DOMAIN pool : bucket \in inferBucketsFromCodes(pool[k].codes.value)}

\* C22: when email, name and birth date leave several pool candidates
\* unresolved and an expected bucket is supplied, every pool candidate is
\* evaluated: exactly one holder of the expected bucket is the resolved
\* candidate, no holder gives invalid reporting all pool candidates, two or
\* more holders give ambiguous listing exactly the holders.
C22_MultiCandidateEvaluation ==
  (rs # None /\ rs.out # None /\ Unresolved(rs) /\ rs.query.expected_bucket # "") =>
    LET pool == PoolOfRun(rs)
        holders == Holders(pool, rs.query.expected_bucket)
        IsHolder(r) == rs.query.expected_bucket \in inferBucketsFromCodes(r.codes.value)
    IN /\ Cardinality(holders) = 1 =>
            /\ rs.out.status = "valid"
            /\ rs.out.bb_record_id = pool[CHOOSE k \in holders : TRUE].id
       /\ Cardinality(holders) = 0 =>
            /\ rs.out.status = "invalid"
            /\ rs.out.candidates = IdsOf(pool)
       /\ Cardinality(holders) >= 2 =>
            /\ rs.out.status = "ambiguous"
            /\ rs.out.candidates = IdsOf(SelectSeq(pool, IsHolder))

\* The candidates of cands whose email is the query email, letter case aside.
EmailMatches(cands, email) ==
  {k \in DOMAIN cands : normalizeEmail(cands[k].email) = normalizeEmail(email)}

\* What C23 calls the result: the outcome and the derived buckets.
Verdict(out) ==
  [status |-> out.status, valid |-> out.valid, upstream |-> out.upstream,
   derived_buckets |-> out.derived_buckets, bb_record_id |-> out.bb_record_id]

\* c is the one candidate of the response that matches the query email.
OnlyEmailMatchInResponse(query, reply, c) ==
  /\ reply.status = 200
  /\ normalizeEmail(query.email) # ""
  /\ \E k \in DOMAIN reply.value :
       EmailMatches(reply.value, query.email) = {k} /\ reply.value[k] = c

\* c is the one candidate of the pool that matches the query email.
OnlyEmailMatchInPool(query, reply, c) ==
  /\ reply.status = 200
  /\ normalizeEmail(query.email) # ""
  /\ LET pool == PoolOf(reply.value, sanitizeId(query.search_id))
     IN \E k \in DOMAIN pool : EmailMatches(pool, query.email) = {k} /\ pool[k] = c

\* C23 as stated: when exactly one candidate of the Directory response
\* matches the query email, the result is the one that candidate's codes
\* give, whatever the other candidates of the response are and in whatever
\* order they come.
C23_EmailMatchDecidesInResponse ==
  (rs # None /\ rs.out # None) =>
    \A c \in CandidateProfiles :
      OnlyEmailMatchInResponse(rs.query, rs.reply, c) =>
        /\ Verdict(rs.out) = Verdict(evaluateSingle(c, rs.query.expected_bucket, <<>>))
        /\ \A other \in SearchReplies :
             OnlyEmailMatchInResponse(rs.query, other, c) =>
               Verdict(validateDiscount(rs.query, other)) = Verdict(rs.out)

\* C23, amended: when exactly one candidate of the pool (the response less
\* the candidates whose lookup id is the query id) matches the query email,
\* the result is the one that candidate's codes give, whatever the other
\* candidates are and in whatever order they come.
C23_EmailMatchDecidesInPool ==
  (rs # None /\ rs.out # None) =>
    \A c \in CandidateProfiles :
      OnlyEmailMatchInPool(rs.query, rs.reply, c) =>
        /\ Verdict(rs.out) = Verdict(evaluateSingle(c, rs.query.expected_bucket, <<>>))
        /\ \A other \in SearchReplies :
             OnlyEmailMatchInPool(rs.query, other, c) =>
               Verdict(validateDiscount(rs.query, other)) = Verdict(rs.out)

C23_Witness ==
  /\ rs # None
  /\ rs.out # None
  /\ Len(PoolOfRun(rs)) = 2
  /\ OnlyEmailMatchInPool(rs.query, rs.reply, PoolOfRun(rs)[2])
  /\ scoreName(PoolOfRun(rs)[1].name, rs.query.name) > 0
  /\ rs.out.bb_record_id = PoolOfRun(rs)[2].id
  /\ rs.out.status = "valid"

\* C24: trigger and status resolve a token to the same registry key, so a
\* status poll that follows a trigger with the same token (over the same EOI
\* table) observes the job this trigger created or joined, never the idle
\* default.
C24_StatusSeesTriggeredJob ==
  [][\A user \in Tokens, eoiOk \in BOOLEAN :
       (TriggerKey(user, eoiOk) # "" /\ Trigger(user, eoiOk)) =>
         LET key == StatusKey(user, eoiOk)
         IN /\ key = TriggerKey(user, eoiOk)
            /\ JOBS'[key] # 0
            /\ sanitizeJob(heap'[JOBS'[key]]).state # "idle"
            /\ heap'[JOBS'[key]].startedAt = lastTrigger'.startedAt]_vars

\* C25: in every state where a job is done, every entry of its checklist has
\* a terminal status; none is still queued or pending.
C25_DoneChecklistIsTerminal ==
  \A j \in JobIds :
    (IsJob(j) /\ heap[j].state = "done") =>
      \A k \in DOMAIN heap[j].members :
        /\ sanitizeJob(heap[j]).members[k].status \notin {"queued", "pending"}
        /\ sanitizeJob(heap[j]).members[k].status \in TerminalStatuses

\* How often the trail holds the event ev for member id.
TimesLogged(trail, ev, id) ==
  Cardinality({p \in DOMAIN trail : trail[p] = <<ev, id>>})

\* C26: for every member the Resolver was invoked on, the worker writes the
\* validation field once, before it goes on to the next member; after the
\* write the stored value is Valid if and only if the final outcome of the
\* Resolver is valid, and every other outcome has replaced the value stored
\* before by a value other than Valid.
C26_ValidationWrittenOncePerMember ==
  [][\A j \in JobIds :
       (pc[j] = "write" /\ pc'[j] # "write") =>
         LET i == wk[j].i
             result == wk[j].result
         IN /\ pc'[j] = "pace"
            /\ TimesLogged(hist'[j].trail, "persist", i) = 1
            /\ hist'[j].trail[Len(hist'[j].trail) - 1] = <<"persist", i>>
            /\ (members'[i].validated = "Valid") <=> result.valid
            /\ ~result.valid =>
                 /\ members'[i].validated = Selection(result)
                 /\ members'[i].validated # "Valid"]_vars

\* ---------------------------------------------------------------------
\* The attachment list under a second writer.
\* ---------------------------------------------------------------------

MaxOtherAttachments == 1

\* The attachments of the list that another writer added (negative ids).
OtherAttachments(agreement) == {n \in DOMAIN agreement : agreement[n] < 0}

\* Another writer of the Agreement field (the generator's own attach, a
\* person in the store's interface) reads the list and appends to it.
OtherWriterAttaches ==
  /\ Cardinality(OtherAttachments(startup.agreement)) < MaxOtherAttachments
  /\ startup' = [startup EXCEPT
                   !.agreement = Append(@, -1 - Cardinality(OtherAttachments(@)))]
  /\ UNCHANGED <<members, JOBS, heap, pc, wk, clock, lastTrigger, hist, aux>>

AttachNext ==
  \/ Next
  \/ OtherWriterAttaches

AttachSpec == OverrideInit /\ [][AttachNext]_vars

\* C27: the append of the job never removes an entry that is in the store's
\* attachment list at the moment of the write; an attachment another writer
\* added after the job read the organization record is still in the list
\* after the append.
C27_AppendKeepsStoredAttachments ==
  [][\A j \in JobIds :
       (pc[j] = "attach" /\ pc'[j] = "stamp") =>
         \A n \in DOMAIN startup.agreement :
           \E m \in DOMAIN startup'.agreement :
             startup'.agreement[m] = startup.agreement[n]]_vars

\* ---------------------------------------------------------------------
\* The members a pass skips.
\* ---------------------------------------------------------------------

\* The member record r takes one of the three skip paths of the member loop.
SkippedByOverride(r) == Trim(r.manual) # ""
SkippedByNoRequest(r) == Trim(r.manual) = "" /\ ~hasDiscountRequest(r.expected)
SkippedByMissingId(r) ==
  /\ Trim(r.manual) = ""
  /\ hasDiscountRequest(r.expected)
  /\ Trim(r.searchId) = ""
SkippedByPass(r) ==
  SkippedByOverride(r) \/ SkippedByNoRequest(r) \/ SkippedByMissingId(r)

\* C28: no step of a pass changes a stored field of a member that the pass
\* skips, whether for a manual override, for no requested discount or for
\* an empty lookup id.
C28_SkippedMemberIsUnchanged ==
  [][\A i \in DOMAIN members :
       SkippedByPass(members[i]) => members'[i] = members[i]]_vars

\* A finished pass that wrote one member's validation and skipped another.
C28_Witness ==
  \E j \in JobIds :
    /\ IsJob(j) /\ heap[j].state = "done"
    /\ \E i, k \in DOMAIN members :
         /\ SkippedByPass(members[i])
         /\ heap[j].members[i].status \in {"skipped", "pending"}
         /\ members[k].validated # ""
         /\ Logged(NoHist, "persist", k).trail[1] \in
              {hist[j].trail[p] : p \in DOMAIN hist[j].trail}

\* ---------------------------------------------------------------------
\* The order of the validation writes and the payload read.
\* ---------------------------------------------------------------------

\* The positions of a running worker from its await of buildPdfPayload on.
PayloadOrLater == {"payload", "render", "cache", "attach", "stamp"}

\* How many validation writes the trail holds.
Persisted(trail) == Cardinality({p \in DOMAIN trail : trail[p][1] = "persist"})

\* C29: once a job awaits its payload read it makes no further validation
\* write and never goes back into the member loop, and at the moment the
\* payload read returns the write of every member the job sent to the
\* Resolver has completed.
C29_NoValidationWriteAfterPayloadRead ==
  [][\A j \in JobIds :
       /\ pc[j] \in PayloadOrLater =>
            /\ pc'[j] \in PayloadOrLater \cup {"finished"}
            /\ Persisted(hist'[j].trail) = Persisted(hist[j].trail)
            /\ members' # members => \E k \in JobIds \ {j} : pc[k] = "write"
       /\ (pc[j] = "payload" /\ pc'[j] = "render") =>
            \A i \in DOMAIN members :
              ~SkippedByPass(members[i]) =>
                TimesLogged(hist[j].trail, "persist", i) = 1]_vars

\* A job past its payload read that wrote a member's validation before.
C29_Witness ==
  \E j \in JobIds :
    /\ pc[j] = "render"
    /\ Persisted(hist[j].trail) >= 1
    /\ \E i \in DOMAIN members : members[i].validated # ""

\* ---------------------------------------------------------------------
\* The order of the candidates in a Directory response.
\* ---------------------------------------------------------------------

\* Two responses hold the same candidates, in whatever order.
SameCandidates(a, b) ==
  /\ a.status = 200 /\ b.status = 200
  /\ Len(a.value) = Len(b.value)
  /\ {a.value[k] : k \in DOMAIN a.value} = {b.value[k] : k \in DOMAIN b.value}

\* C30: for the same query, every Directory response that holds the
\* candidates of this response in another order gives the same outcome and
\* the same resolved candidate, also when several candidates share the
\* query email or tie on the top name score.
C30_ResolveIsOrderIndependent ==
  (rs # None /\ rs.out # None) =>
    \A other \in SearchReplies :
      SameCandidates(rs.reply, other) =>
        Verdict(validateDiscount(rs.query, other)) = Verdict(rs.out)

====
